---------------------------- MODULE Spec2Model ----------------------------
(***************************************************************************)
(* Model of hooks/visual_inspector_context_hook.py: a one-shot process     *)
(* that reads an invocation record from stdin, and for three visual tools  *)
(* loads <tmp>/maestro-inspector/design-system.json and prints a rendered  *)
(* context block on stderr.                                                *)
(*                                                                         *)
(* Representation.  A JSON value is a tagged record (JNull, JBool, JInt,   *)
(* JFloat, JStr, JList, JDict); a dict keeps its pairs in insertion order  *)
(* as Python's dict does.  A float is held in tenths (45 is 4.5), which    *)
(* covers the floats the documents use.  A text (stdin body, file          *)
(* contents) is held as what the decoder and json parser make of it: not   *)
(* decodable, not JSON, or the parsed value.  Text is a sequence of        *)
(* newline-terminated lines.  Interpreter limits (recursion depth, memory) *)
(* are outside the model.                                                  *)
(***************************************************************************)
EXTENDS Integers, Sequences, FiniteSets, TLC

VARIABLES
    file,        \* the constraints file, as the filesystem holds it now
    stdin,       \* the request body handed to the running process
    pc,          \* position of the hook process
    tool_name,   \* main's local, a JSON value once extracted
    ds,          \* the document load_design_system returned
    stderr,      \* lines written to stderr by this process
    exitCode,    \* exit status, meaningful when pc = "done"
    sawExists,   \* history: the file as os.path.exists saw it
    sawOpen,     \* history: the file as open()/json.load saw it
    prev,        \* history: request, observation and outcome of the last finished process
    runs,        \* processes started so far
    writes       \* operations of the external writer so far

vars == <<file, stdin, pc, tool_name, ds, stderr, exitCode,
          sawExists, sawOpen, prev, runs, writes>>

\* Invocations of the hook in one behaviour.
MaxRuns == 2
\* Operations of the external writer in one behaviour.
MaxWrites == 2

-----------------------------------------------------------------------------
(* JSON values as Python objects *)

JNull == [t |-> "null"]
JBool(b) == [t |-> "bool", b |-> b]
JInt(n) == [t |-> "int", n |-> n]
JFloat(tenths) == [t |-> "float", n |-> tenths]
JStr(s) == [t |-> "str", s |-> s]
JList(elems) == [t |-> "list", elems |-> elems]
JDict(pairs) == [t |-> "dict", pairs |-> pairs]
KV(k, v) == [k |-> k, v |-> v]

\* Outcome of a Python call: a value, or the exception it raised.
Ok(v) == [ok |-> TRUE, exc |-> "none", val |-> v]
Raise(e) == [ok |-> FALSE, exc |-> e, val |-> <<>>]

\* The classes an exception is an instance of (IOError is an alias of OSError).
Bases(e) ==
    CASE e = "FileNotFoundError" -> {"FileNotFoundError", "OSError", "IOError", "Exception"}
      [] e = "PermissionError" -> {"PermissionError", "OSError", "IOError", "Exception"}
      [] e = "JSONDecodeError" -> {"JSONDecodeError", "ValueError", "Exception"}
      [] e = "UnicodeDecodeError" -> {"UnicodeDecodeError", "UnicodeError", "ValueError", "Exception"}
      [] OTHER -> {e, "Exception"}

\* An except clause naming `handlers` catches e.
Catches(handlers, e) == Bases(e) \cap handlers # {}

\* d.get(k, dflt) on a dict.
Get(d, k, dflt) ==
    LET at == {i \in 1..Len(d.pairs) : d.pairs[i].k = k}
    IN IF at = {} THEN dflt ELSE d.pairs[CHOOSE i \in at : TRUE].v

\* Truth value of an object, as `if x:` tests it.
Truthy(v) ==
    CASE v.t = "null" -> FALSE
      [] v.t = "bool" -> v.b
      [] v.t = "int" -> v.n # 0
      [] v.t = "float" -> v.n # 0
      [] v.t = "str" -> v.s # ""
      [] v.t = "list" -> v.elems # <<>>
      [] v.t = "dict" -> v.pairs # <<>>

\* sep.join(parts)
RECURSIVE Join(_, _)
Join(sep, parts) ==
    IF parts = <<>> THEN ""
    ELSE IF Len(parts) = 1 THEN parts[1]
    ELSE parts[1] \o sep \o Join(sep, Tail(parts))

\* str(x) of a number: ints in decimal, floats with one fractional digit.
NumStr(v) ==
    IF v.t = "int" THEN ToString(v.n)
    ELSE ToString(v.n \div 10) \o "." \o ToString(v.n % 10)

\* repr(x), and str(x) (they differ on strings only).
RECURSIVE PyRepr(_)
PyRepr(v) ==
    CASE v.t = "null" -> "None"
      [] v.t = "bool" -> IF v.b THEN "True" ELSE "False"
      [] v.t \in {"int", "float"} -> NumStr(v)
      [] v.t = "str" -> "'" \o v.s \o "'"
      [] v.t = "list" ->
            "[" \o Join(", ", [i \in 1..Len(v.elems) |-> PyRepr(v.elems[i])]) \o "]"
      [] v.t = "dict" ->
            "{" \o Join(", ", [i \in 1..Len(v.pairs) |->
                    "'" \o v.pairs[i].k \o "': " \o PyRepr(v.pairs[i].v)]) \o "}"

PyStr(v) == IF v.t = "str" THEN v.s ELSE PyRepr(v)

\* The items a `for` loop (or a generator) draws from x; TypeError when x is not iterable.
Iter(v) ==
    CASE v.t = "list" -> Ok(v.elems)
      [] v.t = "dict" -> Ok([i \in 1..Len(v.pairs) |-> JStr(v.pairs[i].k)])
      [] v.t = "str" -> Ok([i \in 1..Len(v.s) |-> JStr(SubSeq(v.s, i, i))])
      [] OTHER -> Raise("TypeError")

\* len(x); TypeError when x has no length.
PyLen(v) ==
    CASE v.t = "list" -> Ok(Len(v.elems))
      [] v.t = "dict" -> Ok(Len(v.pairs))
      [] v.t = "str" -> Ok(Len(v.s))
      [] OTHER -> Raise("TypeError")

\* The first failing step of a sequence of outcomes, 0 when none failed.
FirstRaise(steps) ==
    LET bad == {i \in 1..Len(steps) : ~steps[i].ok}
    IN IF bad = {} THEN 0 ELSE CHOOSE i \in bad : \A j \in bad : i <= j

-----------------------------------------------------------------------------
(* Texts and the constraints file *)

\* A text by what decoding and parsing make of it.  `val` is the parsed value
\* of a JSON text; for a text that is not JSON it stands for what a reader
\* can still make out in it (a tool name in a truncated request).
Undecodable == [class |-> "undecodable", val |-> JNull]
NotJson(mention) == [class |-> "notjson", val |-> mention]
JsonText(v) == [class |-> "json", val |-> v]
NoText == [class |-> "none", val |-> JNull]

\* json.loads(text) / json.load(f) on a file opened with encoding="utf-8".
json_load(text) ==
    CASE text.class = "undecodable" -> Raise("UnicodeDecodeError")
      [] text.class = "notjson" -> Raise("JSONDecodeError")
      [] text.class = "json" -> Ok(text.val)

\* CONSTRAINTS_FILE as the filesystem holds it.
Absent == [kind |-> "absent", text |-> NoText]
NoPerm == [kind |-> "noperm", text |-> NoText]
Regular(text) == [kind |-> "regular", text |-> text]
Unobserved == [kind |-> "unobserved", text |-> NoText]

\* os.path.exists(CONSTRAINTS_FILE)
path_exists(f) == f.kind # "absent"

\* open(CONSTRAINTS_FILE, "r", encoding="utf-8")
open_file(f) ==
    CASE f.kind = "absent" -> Raise("FileNotFoundError")
      [] f.kind = "noperm" -> Raise("PermissionError")
      [] f.kind = "regular" -> Ok(f.text)

-----------------------------------------------------------------------------
(* get_default_design_system, load_design_system *)

\* The default of brand.get("spacing", ...) in format_design_system_context.
default_spacing ==
    JDict(<<KV("unit", JInt(8)),
            KV("scale", JList(<<JInt(4), JInt(8), JInt(16), JInt(24), JInt(32), JInt(48)>>))>>)

\* As get_default_design_system, with another base unit.
get_default_design_system_mut ==
    JDict(<<KV("brand", JDict(<<KV("colors", JDict(<<>>)),
                                KV("typography", JDict(<<>>)),
                                KV("spacing", JDict(<<KV("unit", JInt(4)),
                                    KV("scale", JList(<<JInt(4), JInt(8), JInt(16),
                                                        JInt(24), JInt(32), JInt(48)>>))>>))>>)),
            KV("accessibility", JDict(<<KV("min_contrast", JFloat(45)),
                                        KV("min_touch_target", JInt(44)),
                                        KV("require_labels", JBool(TRUE))>>)),
            KV("discovered_patterns", JList(<<>>))>>)

get_default_design_system ==
    JDict(<<KV("brand", JDict(<<KV("colors", JDict(<<>>)),
                                KV("typography", JDict(<<>>)),
                                KV("spacing", JDict(<<KV("unit", JInt(8)),
                                    KV("scale", JList(<<JInt(4), JInt(8), JInt(16),
                                                        JInt(24), JInt(32), JInt(48)>>))>>))>>)),
            KV("accessibility", JDict(<<KV("min_contrast", JFloat(45)),
                                        KV("min_touch_target", JInt(44)),
                                        KV("require_labels", JBool(TRUE))>>)),
            KV("discovered_patterns", JList(<<>>))>>)

\* The exceptions load_design_system's except clause names.
load_handlers == {"JSONDecodeError", "IOError"}

\* The try block of load_design_system, entered after the existence check
\* succeeded, on the file as it is now: the value returned, or the exception
\* that leaves the function.
load_open(f) ==
    LET opened == open_file(f)
        parsed == IF opened.ok THEN json_load(opened.val) ELSE opened
    IN IF parsed.ok THEN parsed
       ELSE IF Catches(load_handlers, parsed.exc) THEN Ok(get_default_design_system)
       ELSE parsed

-----------------------------------------------------------------------------
(* format_design_system_context *)

Placeholder == <<"  - (none discovered yet)">>

\* One line per item of a mapping, in its stored order.
item_lines(m) ==
    [i \in 1..Len(m.pairs) |-> "  - " \o m.pairs[i].k \o ": " \o PyStr(m.pairs[i].v)]

color_lines(brand) ==
    IF brand.t # "dict" THEN Raise("AttributeError")
    ELSE LET colors == Get(brand, "colors", JDict(<<>>))
         IN IF ~Truthy(colors) THEN Ok(Placeholder)
            ELSE IF colors.t # "dict" THEN Raise("AttributeError")
            ELSE Ok(item_lines(colors))

typo_lines(brand) ==
    IF brand.t # "dict" THEN Raise("AttributeError")
    ELSE LET typography == Get(brand, "typography", JDict(<<>>))
         IN IF ~Truthy(typography) THEN Ok(Placeholder)
            ELSE IF typography.t # "dict" THEN Raise("AttributeError")
            ELSE Ok(item_lines(typography))

\* spacing_unit and spacing_scale, the objects taken from brand.
spacing_of(brand) ==
    IF brand.t # "dict" THEN Raise("AttributeError")
    ELSE LET spacing == Get(brand, "spacing", default_spacing)
         IN IF spacing.t # "dict" THEN Raise("AttributeError")
            ELSE Ok([unit |-> Get(spacing, "unit", JInt(8)),
                     scale |-> Get(spacing, "scale", JList(<<>>))])

\* min_contrast, min_touch and require_labels, the objects taken from accessibility.
accessibility_of(accessibility) ==
    IF accessibility.t # "dict" THEN Raise("AttributeError")
    ELSE Ok([min_contrast |-> Get(accessibility, "min_contrast", JFloat(45)),
             min_touch |-> Get(accessibility, "min_touch_target", JInt(44)),
             require_labels |-> Get(accessibility, "require_labels", JBool(TRUE))])

\* As pattern_line, counting the entry's keys instead of its screens.
pattern_line_mut(p) ==
    IF p.t # "dict" THEN Raise("AttributeError")
    ELSE LET ptype == Get(p, "type", JStr("unknown"))
             screens == PyLen(p)
         IN IF ~screens.ok THEN screens
            ELSE Ok("  - " \o PyStr(ptype) \o " (seen on " \o ToString(screens.val) \o " screens)")

\* The line of one discovered pattern.
pattern_line(p) ==
    IF p.t # "dict" THEN Raise("AttributeError")
    ELSE LET ptype == Get(p, "type", JStr("unknown"))
             screens == PyLen(Get(p, "screens", JList(<<>>)))
         IN IF ~screens.ok THEN screens
            ELSE Ok("  - " \o PyStr(ptype) \o " (seen on " \o ToString(screens.val) \o " screens)")

pattern_lines(patterns) ==
    IF ~Truthy(patterns) THEN Ok(Placeholder)
    ELSE LET items == Iter(patterns)
         IN IF ~items.ok THEN items
            ELSE LET each == [i \in 1..Len(items.val) |-> pattern_line(items.val[i])]
                     bad == FirstRaise(each)
                 IN IF bad # 0 THEN each[bad]
                    ELSE Ok([i \in 1..Len(each) |-> each[i].val])

\* ', '.join(str(s) for s in spacing_scale)
scale_text(spacing_scale) ==
    LET items == Iter(spacing_scale)
    IN IF ~items.ok THEN items
       ELSE Ok(Join(", ", [i \in 1..Len(items.val) |-> PyStr(items.val[i])]))

\* The returned f-string, line by line.  The first line starts with the
\* character U+1F4D0, written here by its code point.
Template(colors, typo, unit, scale, min_contrast, min_touch, require_labels, patterns) ==
    <<"<U+1F4D0> **Design System Verification Active**",
      "",
      "Before analyzing this screen/component, check against these design system constraints:",
      "",
      "**Colors (from design-system.json):**">>
    \o colors \o
    <<"- Verify color consistency across components",
      "- Check contrast ratios meet WCAG AA (" \o min_contrast \o ":1 minimum)",
      "",
      "**Typography:**">>
    \o typo \o
    <<"- Font sizes should follow " \o unit \o "px scale",
      "- Verify hierarchy and consistency",
      "",
      "**Spacing:**",
      "- Base unit: " \o unit \o "px",
      "- Scale: " \o scale,
      "- Verify padding/margins align to grid",
      "- Check component spacing consistency",
      "",
      "**Accessibility (constraints):**",
      "- Touch targets: minimum " \o min_touch \o "x" \o min_touch \o " points",
      "- Labels required: " \o require_labels,
      "- Contrast: minimum " \o min_contrast \o ":1 for normal text, 3:1 for large text",
      "- Focus indicators: visible and clear",
      "",
      "**Discovered Patterns:**">>
    \o patterns \o
    <<"",
      "**Analysis Questions:**",
      "1. Does this component/screen match the design system?",
      "2. Are there any inconsistencies with previously seen screens?",
      "3. Are accessibility requirements met?",
      "4. What patterns or components are being used?",
      "5. Should any new patterns be added using maestro_update_constraint?",
      "",
      "Use the /a11y-check, /color-audit, /typography-audit, and /spacing-audit skills for detailed analysis.">>

\* The text returned for ds, or the exception raised on the way, in the
\* order the statements run.
format_design_system_context(doc) ==
    IF doc.t # "dict" THEN Raise("AttributeError")
    ELSE LET brand == Get(doc, "brand", JDict(<<>>))
             accessibility == Get(doc, "accessibility", JDict(<<>>))
             patterns == Get(doc, "discovered_patterns", JList(<<>>))
             cl == color_lines(brand)
             tl == typo_lines(brand)
             sp == spacing_of(brand)
             ac == accessibility_of(accessibility)
             pl == pattern_lines(patterns)
             sc == IF sp.ok THEN scale_text(sp.val.scale) ELSE sp
             steps == <<cl, tl, sp, ac, pl, sc>>
             bad == FirstRaise(steps)
         IN IF bad # 0 THEN Raise(steps[bad].exc)
            ELSE Ok(Template(cl.val, tl.val, PyStr(sp.val.unit), sc.val,
                             PyStr(ac.val.min_contrast), PyStr(ac.val.min_touch),
                             PyStr(ac.val.require_labels), pl.val))

-----------------------------------------------------------------------------
(* Requests and documents the behaviours draw from *)

Req(pairs) == JsonText(JDict(pairs))

\* Request bodies: not JSON (with and without a tool name in the text), JSON
\* that is not an object, objects with tool_name absent, empty, of another
\* type, of a tool outside the list, and the three listed tools.
Requests ==
    { NotJson(JStr("maestro_hierarchy")),
      NotJson(JNull),
      JsonText(JList(<<>>)),
      JsonText(JStr("maestro_capture_screen")),
      Req(<<>>),
      Req(<<KV("tool_name", JStr(""))>>),
      Req(<<KV("tool_name", JInt(5))>>),
      Req(<<KV("tool_name", JStr("maestro_tap")), KV("tool_input", JDict(<<>>))>>),
      Req(<<KV("tool_name", JStr("maestro_capture_screen"))>>),
      Req(<<KV("tool_name", JStr("maestro_hierarchy")), KV("tool_input", JDict(<<>>))>>),
      Req(<<KV("tool_name", JStr("maestro_focus_region"))>>) }

\* A dict pair that may be absent.
Absentee == [t |-> "absent"]
Opt(k, v) == IF v = Absentee THEN <<>> ELSE <<KV(k, v)>>

DocColors ==
    JDict(<<KV("brand", JDict(<<KV("colors", JDict(<<KV("primary", JStr("#1a73e8"))>>))>>))>>)

DocFull ==
    JDict(<<KV("brand", JDict(<<
                KV("colors", JDict(<<KV("primary", JStr("#1a73e8")),
                                     KV("accent", JStr("#ff5722"))>>)),
                KV("typography", JDict(<<KV("heading", JStr("Inter 24px"))>>)),
                KV("spacing", JDict(<<KV("unit", JInt(4)),
                                      KV("scale", JList(<<JInt(2), JInt(4), JInt(12)>>))>>))>>)),
            KV("accessibility", JDict(<<KV("min_contrast", JInt(7)),
                                        KV("min_touch_target", JInt(48)),
                                        KV("require_labels", JBool(FALSE))>>)),
            KV("discovered_patterns", JList(<<
                JDict(<<KV("type", JStr("nav_bar")),
                        KV("screens", JList(<<JStr("home"), JStr("settings")>>))>>),
                JDict(<<KV("type", JStr("card")),
                        KV("screens", JList(<<JStr("home")>>))>>)>>))>>)

\* Documents of an unexpected shape: not an object, and objects whose
\* brand, accessibility or patterns field has an unexpected type.
OddDocs ==
    { JList(<<>>),
      JDict(<<KV("brand", JNull)>>),
      JDict(<<KV("accessibility", JStr("AA"))>>),
      JDict(<<KV("discovered_patterns", JList(<<JDict(<<KV("screens", JNull)>>)>>))>>) }

\* What the external writer leaves when it completes a write.
WriterDocs == {DocColors, DocFull}

\* What a write leaves while it is under way: a prefix of the document,
\* cut anywhere, also inside a multi-byte character.
PartialTexts == {NotJson(JNull), Undecodable}

FileStates ==
    {Absent, NoPerm}
    \cup {Regular(t) : t \in PartialTexts}
    \cup {Regular(JsonText(d)) : d \in WriterDocs \cup OddDocs}

\* Well-typed documents with every combination of present and absent fields.
ColorsOpts ==
    { Absentee, JDict(<<>>),
      JDict(<<KV("primary", JStr("#1a73e8"))>>),
      JDict(<<KV("primary", JStr("#1a73e8")), KV("accent", JStr("#ff5722"))>>) }
TypoOpts == {Absentee, JDict(<<KV("heading", JStr("Inter 24px"))>>)}
SpacingOpts ==
    { Absentee, JDict(<<>>),
      JDict(<<KV("unit", JInt(4))>>),
      JDict(<<KV("scale", JList(<<JInt(2), JInt(4)>>))>>),
      JDict(<<KV("unit", JInt(4)), KV("scale", JList(<<JInt(2), JInt(4), JInt(12)>>))>>),
      JDict(<<KV("unit", JInt(16)), KV("scale", JList(<<>>))>>) }
BrandOpts ==
    {Absentee} \cup
    { JDict(Opt("colors", c) \o Opt("typography", t) \o Opt("spacing", s)) :
        c \in ColorsOpts, t \in TypoOpts, s \in SpacingOpts }
AccessOpts ==
    {Absentee} \cup
    { JDict(Opt("min_contrast", mc) \o Opt("min_touch_target", mt) \o Opt("require_labels", rl)) :
        mc \in {Absentee, JInt(7), JFloat(30)},
        mt \in {Absentee, JFloat(480)},
        rl \in {Absentee, JBool(FALSE)} }
PatternOpts ==
    { Absentee, JList(<<>>),
      JList(<<JDict(<<KV("type", JStr("nav_bar")),
                      KV("screens", JList(<<JStr("home"), JStr("settings")>>))>>)>>),
      JList(<<JDict(<<KV("type", JStr("card")), KV("screens", JList(<<>>))>>),
              JDict(<<KV("type", JStr("nav_bar")),
                      KV("screens", JList(<<JStr("home"), JStr("settings")>>))>>)>>),
      JList(<<JDict(<<KV("screens", JList(<<JStr("home")>>))>>),
              JDict(<<KV("type", JStr("fab"))>>)>>) }
TypedDocs ==
    { JDict(Opt("brand", b) \o Opt("accessibility", a) \o Opt("discovered_patterns", p)) :
        b \in BrandOpts, a \in AccessOpts, p \in PatternOpts }

-----------------------------------------------------------------------------
(* The hook process, main() *)

Unset == [t |-> "unset"]
NoPrev == [set |-> FALSE, req |-> NoText, saw |-> Unobserved, out |-> <<>>, code |-> 0]

\* As main_handlers, the clause naming an exception json.loads does not raise.
main_handlers_mut == {"KeyError"}

\* The exceptions main's except clause names.
main_handlers == {"JSONDecodeError"}

\* As visual_inspection_tools, with a tool that takes no screenshot let in.
visual_inspection_tools_mut ==
    <<"maestro_capture_screen", "maestro_hierarchy", "maestro_focus_region", "maestro_tap">>

visual_inspection_tools ==
    <<"maestro_capture_screen", "maestro_hierarchy", "maestro_focus_region">>

\* `x in lst` for a list of strings: equal to one of its items.
InList(x, lst) == x.t = "str" /\ \E i \in 1..Len(lst) : lst[i] = x.s

\* What the interpreter prints for an exception nobody caught.
Traceback(e) == <<"Traceback (most recent call last):", e>>

\* The process ends on an uncaught exception: traceback on stderr, status 1.
Die(e) ==
    /\ stderr' = stderr \o Traceback(e)
    /\ exitCode' = 1
    /\ pc' = "done"

\* sys.exit(0)
Exit0 ==
    /\ exitCode' = 0
    /\ pc' = "done"

\* The host starts the hook for one tool call, with the request on stdin.
Start(req) ==
    /\ pc = "idle"
    /\ runs < MaxRuns
    /\ runs' = runs + 1
    /\ stdin' = req
    /\ pc' = "main"
    /\ UNCHANGED <<file, tool_name, ds, stderr, exitCode, sawExists, sawOpen, prev, writes>>

\* main up to the allow-list test: parse stdin, take tool_name, filter.
ReadInput ==
    /\ pc = "main"
    /\ LET input_data == json_load(stdin)
       IN IF ~input_data.ok
          THEN /\ IF Catches(main_handlers, input_data.exc)
                  THEN Exit0 /\ stderr' = stderr
                  ELSE Die(input_data.exc)
               /\ UNCHANGED tool_name
          ELSE IF input_data.val.t # "dict"
          THEN Die("AttributeError") /\ UNCHANGED tool_name
          ELSE /\ tool_name' = Get(input_data.val, "tool_name", JStr(""))
               /\ IF ~InList(tool_name', visual_inspection_tools)
                  THEN Exit0 /\ stderr' = stderr
                  ELSE pc' = "load" /\ UNCHANGED <<stderr, exitCode>>
    /\ UNCHANGED <<file, stdin, ds, sawExists, sawOpen, prev, runs, writes>>

\* As LoadExists, creating the file with the defaults when it is missing.
LoadExists_mut ==
    /\ pc = "load"
    /\ sawExists' = file
    /\ IF path_exists(file)
       THEN pc' = "open" /\ UNCHANGED <<ds, file>>
       ELSE /\ pc' = "format"
            /\ ds' = get_default_design_system
            /\ file' = Regular(JsonText(get_default_design_system))
    /\ UNCHANGED <<stdin, tool_name, stderr, exitCode, sawOpen, prev, runs, writes>>

\* load_design_system, the existence check.
LoadExists ==
    /\ pc = "load"
    /\ sawExists' = file
    /\ IF path_exists(file)
       THEN pc' = "open" /\ UNCHANGED ds
       ELSE pc' = "format" /\ ds' = get_default_design_system
    /\ UNCHANGED <<file, stdin, tool_name, stderr, exitCode, sawOpen, prev, runs, writes>>

\* load_design_system, the try block: open, read, parse.  The file is read
\* at one point in time, whatever the writer did since the existence check.
LoadOpen ==
    /\ pc = "open"
    /\ sawOpen' = file
    /\ LET loaded == load_open(file)
       IN IF loaded.ok
          THEN /\ ds' = loaded.val
               /\ pc' = "format"
               /\ UNCHANGED <<stderr, exitCode>>
          ELSE Die(loaded.exc) /\ UNCHANGED ds
    /\ UNCHANGED <<file, stdin, tool_name, sawExists, prev, runs, writes>>

\* As Format, rendering what the file holds now instead of the document loaded.
Format_mut ==
    /\ pc = "format"
    /\ LET now == load_open(file)
           context == format_design_system_context(IF now.ok THEN now.val ELSE ds)
       IN IF context.ok
          THEN stderr' = stderr \o context.val \o <<"">> /\ Exit0
          ELSE Die(context.exc)
    /\ UNCHANGED <<file, stdin, tool_name, ds, sawExists, sawOpen, prev, runs, writes>>

\* main, the end: render ds, print it to stderr, exit 0.
Format ==
    /\ pc = "format"
    /\ LET context == format_design_system_context(ds)
       IN IF context.ok
          THEN stderr' = stderr \o context.val \o <<"">> /\ Exit0
          ELSE Die(context.exc)
    /\ UNCHANGED <<file, stdin, tool_name, ds, sawExists, sawOpen, prev, runs, writes>>

\* What the loader of the current process saw of the file.
Saw ==
    IF sawExists.kind \in {"unobserved", "absent"} THEN sawExists ELSE sawOpen

\* The process is gone; nothing of it is kept but what it wrote.
Finish ==
    /\ pc = "done"
    /\ pc' = "idle"
    /\ prev' = [set |-> TRUE, req |-> stdin, saw |-> Saw, out |-> stderr, code |-> exitCode]
    /\ stdin' = NoText
    /\ tool_name' = Unset
    /\ ds' = Unset
    /\ stderr' = <<>>
    /\ exitCode' = 0
    /\ sawExists' = Unobserved
    /\ sawOpen' = Unobserved
    /\ UNCHANGED <<file, runs, writes>>

-----------------------------------------------------------------------------
(* The external writer of the constraints file *)

WriterStep(f) ==
    /\ writes < MaxWrites
    /\ writes' = writes + 1
    /\ file' = f
    /\ UNCHANGED <<stdin, pc, tool_name, ds, stderr, exitCode, sawExists, sawOpen, prev, runs>>

\* Creates or replaces the file with a complete document.
WriterWrite == \E d \in WriterDocs : file # Regular(JsonText(d)) /\ WriterStep(Regular(JsonText(d)))

\* A write under way: the file holds part of the document.
WriterPartial == \E t \in PartialTexts : file # Regular(t) /\ WriterStep(Regular(t))

\* Deletes the file.
WriterDelete == file.kind # "absent" /\ WriterStep(Absent)

-----------------------------------------------------------------------------
(* Specifications *)

InitProc ==
    /\ stdin = NoText
    /\ pc = "idle"
    /\ tool_name = Unset
    /\ ds = Unset
    /\ stderr = <<>>
    /\ exitCode = 0
    /\ sawExists = Unobserved
    /\ sawOpen = Unobserved
    /\ prev = NoPrev
    /\ runs = 0
    /\ writes = 0

Init == file \in FileStates /\ InitProc

Hook == (\E req \in Requests : Start(req)) \/ ReadInput \/ LoadExists \/ LoadOpen \/ Format

Next == Hook \/ Finish \/ WriterWrite \/ WriterPartial \/ WriterDelete

\* The hook beside the external writer, over several invocations.
Spec == Init /\ [][Next]_vars

InitDocs == file \in {Absent} \cup {Regular(JsonText(d)) : d \in TypedDocs} /\ InitProc

NextDocs == Hook

\* One invocation on each well-typed document, the file left alone.
SpecDocs == InitDocs /\ [][NextDocs]_vars

-----------------------------------------------------------------------------
(* Reading a request and the printed text, for the properties below *)

AllowListed == {"maestro_capture_screen", "maestro_hierarchy", "maestro_focus_region"}

\* The request is a JSON object.
IsRecord(req) == req.class = "json" /\ req.val.t = "dict"

\* The tool a request names: its tool_name when that is a string, "" when absent.
NamedTool(req) ==
    LET at == {i \in 1..Len(req.val.pairs) : req.val.pairs[i].k = "tool_name"}
    IN IF at = {} THEN JStr("") ELSE req.val.pairs[CHOOSE i \in at : TRUE].v

\* The request names one of the three visual inspection tools.
Activating(req) ==
    IsRecord(req) /\ NamedTool(req).t = "str" /\ NamedTool(req).s \in AllowListed

\* The field at a path of a document, Absentee when a step is missing.
Field(d, k) ==
    IF d = Absentee \/ d.t # "dict" THEN Absentee
    ELSE LET at == {i \in 1..Len(d.pairs) : d.pairs[i].k = k}
         IN IF at = {} THEN Absentee ELSE d.pairs[CHOOSE i \in at : TRUE].v

Has(out, line) == \E i \in 1..Len(out) : out[i] = line

Where(out, line) ==
    IF Has(out, line) THEN CHOOSE i \in 1..Len(out) : out[i] = line /\ \A j \in 1..(i-1) : out[j] # line
    ELSE 0

\* The lines after the line `from`, up to `skip` lines before the line `to`.
Section(out, from, to, skip) ==
    IF Where(out, from) = 0 \/ Where(out, to) = 0 THEN <<"(section missing)">>
    ELSE SubSeq(out, Where(out, from) + 1, Where(out, to) - 1 - skip)

ColorsShown(out) ==
    Section(out, "**Colors (from design-system.json):**",
            "- Verify color consistency across components", 0)
TypographyShown(out) ==
    Section(out, "**Typography:**", "- Verify hierarchy and consistency", 1)
PatternsShown(out) ==
    Section(out, "**Discovered Patterns:**", "**Analysis Questions:**", 1)

NoneYet == <<"  - (none discovered yet)">>

UnitShown(out, u) == Has(out, "- Base unit: " \o u \o "px")
ScaleShown(out, sc) == Has(out, "- Scale: " \o sc)
ContrastShown(out, c) ==
    /\ Has(out, "- Check contrast ratios meet WCAG AA (" \o c \o ":1 minimum)")
    /\ Has(out, "- Contrast: minimum " \o c \o ":1 for normal text, 3:1 for large text")
TouchShown(out, m) == Has(out, "- Touch targets: minimum " \o m \o "x" \o m \o " points")
LabelsShown(out, r) == Has(out, "- Labels required: " \o r)

\* The text shows the documented defaults in every section.
ShowsDefaults(out) ==
    /\ ColorsShown(out) = NoneYet
    /\ TypographyShown(out) = NoneYet
    /\ UnitShown(out, "8")
    /\ ScaleShown(out, "4, 8, 16, 24, 32, 48")
    /\ ContrastShown(out, "4.5")
    /\ TouchShown(out, "44")
    /\ LabelsShown(out, "True")
    /\ PatternsShown(out) = NoneYet

\* A scalar of the file as text.
Shown(v) ==
    CASE v.t = "str" -> v.s
      [] v.t = "int" -> ToString(v.n)
      [] v.t = "float" -> ToString(v.n \div 10) \o "." \o ToString(v.n % 10)
      [] v.t = "bool" -> IF v.b THEN "True" ELSE "False"

RECURSIVE Commas(_)
Commas(elems) ==
    IF elems = <<>> THEN ""
    ELSE Shown(elems[1]) \o (IF Len(elems) = 1 THEN "" ELSE ", " \o Commas(Tail(elems)))

\* The document the loader of the current process read from the file.
ReadDoc == sawOpen.text.val
ReadsDoc == sawExists.kind = "regular" /\ sawOpen.kind = "regular" /\ sawOpen.text.class = "json"

-----------------------------------------------------------------------------
(* Properties *)

\* C1: whatever the request and whatever the constraints file, the process
\* ends with exit status 0.
C1_ExitAlwaysZero == pc = "done" => exitCode = 0

\* C2: for a request record whose tool_name is not one of the three listed
\* names (absent and empty included) the hook prints nothing, exits 0 and
\* never looks at the constraints file, whatever that file holds.
C2_OtherToolsSilent ==
    (pc # "idle" /\ IsRecord(stdin) /\ ~Activating(stdin)) =>
        /\ pc \in {"main", "done"}
        /\ stderr = <<>>
        /\ sawExists = Unobserved /\ sawOpen = Unobserved /\ ds = Unset
        /\ pc = "done" => exitCode = 0

C2_Witness ==
    /\ pc = "done"
    /\ IsRecord(stdin) /\ NamedTool(stdin) = JStr("maestro_tap")
    /\ file = Regular(JsonText(DocFull))

\* C3: for a request body that is not JSON the hook prints nothing and exits
\* 0, whatever tool name the body mentions and whatever the file holds.
C3_BadRequestSilent ==
    (pc # "idle" /\ stdin.class = "notjson") =>
        /\ pc \in {"main", "done"}
        /\ stderr = <<>>
        /\ sawExists = Unobserved /\ sawOpen = Unobserved
        /\ pc = "done" => exitCode = 0

C3_Witness ==
    /\ pc = "done"
    /\ stdin = NotJson(JStr("maestro_hierarchy"))
    /\ file = Regular(JsonText(DocFull))

\* C4: with the file absent at the existence check and a listed tool, the
\* hook exits 0 and the text shows the defaults in every section.
C4_AbsentShowsDefaults ==
    (pc = "done" /\ Activating(stdin) /\ sawExists = Absent) =>
        exitCode = 0 /\ ShowsDefaults(stderr)

C4_Witness ==
    /\ pc = "done" /\ Activating(stdin) /\ sawExists = Absent
    /\ ShowsDefaults(stderr)
    /\ file = Regular(JsonText(DocFull))

\* C5: a file that exists but cannot be opened, or whose contents are not
\* valid JSON, gives the default document, and the same text and status as
\* the absent file.
C5_UnreadableAsAbsent ==
    (pc = "done" /\ Activating(stdin) /\ sawExists.kind # "absent"
        /\ (sawOpen.kind = "noperm"
            \/ (sawOpen.kind = "regular" /\ sawOpen.text.class \in {"notjson", "undecodable"}))) =>
        /\ ds = get_default_design_system
        /\ exitCode = 0
        /\ ShowsDefaults(stderr)

\* C6: every field or sub-field missing from the document is shown with its
\* documented default, whatever else the document holds.
C6_DefaultsPerField ==
    (pc = "done" /\ Activating(stdin) /\ ReadsDoc /\ ReadDoc.t = "dict") =>
        LET brand == Field(ReadDoc, "brand")
            spacing == Field(brand, "spacing")
            access == Field(ReadDoc, "accessibility")
        IN /\ exitCode = 0
           /\ Field(brand, "colors") = Absentee => ColorsShown(stderr) = NoneYet
           /\ Field(brand, "typography") = Absentee => TypographyShown(stderr) = NoneYet
           /\ Field(spacing, "unit") = Absentee => UnitShown(stderr, "8")
           /\ Field(spacing, "scale") = Absentee => ScaleShown(stderr, "4, 8, 16, 24, 32, 48")
           /\ Field(access, "min_contrast") = Absentee => ContrastShown(stderr, "4.5")
           /\ Field(access, "min_touch_target") = Absentee => TouchShown(stderr, "44")
           /\ Field(access, "require_labels") = Absentee => LabelsShown(stderr, "True")
           /\ Field(ReadDoc, "discovered_patterns") = Absentee => PatternsShown(stderr) = NoneYet

\* C7: for each listed tool and a well-formed document in the file, the text
\* shows the file's own values: a line per color and per typography entry in
\* stored order, the unit, the scale joined by commas, the three
\* accessibility values, and a line per pattern with the number of its screens.
C7_FileValuesShown ==
    (pc = "done" /\ Activating(stdin) /\ ReadsDoc /\ ReadDoc \in TypedDocs) =>
        LET brand == Field(ReadDoc, "brand")
            colors == Field(brand, "colors")
            typo == Field(brand, "typography")
            spacing == Field(brand, "spacing")
            unit == Field(spacing, "unit")
            scale == Field(spacing, "scale")
            access == Field(ReadDoc, "accessibility")
            mc == Field(access, "min_contrast")
            mt == Field(access, "min_touch_target")
            rl == Field(access, "require_labels")
            pats == Field(ReadDoc, "discovered_patterns")
            entries(m) == [i \in 1..Len(m.pairs) |->
                              "  - " \o m.pairs[i].k \o ": " \o Shown(m.pairs[i].v)]
            counted(p) == [i \in 1..Len(p.elems) |->
                              "  - " \o Shown(Field(p.elems[i], "type")) \o " (seen on "
                              \o ToString(Len(Field(p.elems[i], "screens").elems)) \o " screens)"]
            whole(p) == \A i \in 1..Len(p.elems) :
                           /\ Field(p.elems[i], "type") # Absentee
                           /\ Field(p.elems[i], "screens") # Absentee
        IN /\ exitCode = 0
           /\ (colors # Absentee /\ colors.pairs # <<>>) => ColorsShown(stderr) = entries(colors)
           /\ (typo # Absentee /\ typo.pairs # <<>>) => TypographyShown(stderr) = entries(typo)
           /\ unit # Absentee => UnitShown(stderr, Shown(unit))
           /\ scale # Absentee => ScaleShown(stderr, Commas(scale.elems))
           /\ mc # Absentee => ContrastShown(stderr, Shown(mc))
           /\ mt # Absentee => TouchShown(stderr, Shown(mt))
           /\ rl # Absentee => LabelsShown(stderr, Shown(rl))
           /\ (pats # Absentee /\ pats.elems # <<>>) =>
                 /\ Len(PatternsShown(stderr)) = Len(pats.elems)
                 /\ whole(pats) => PatternsShown(stderr) = counted(pats)

DocRich ==
    JDict(<<KV("brand", JDict(<<
                KV("colors", JDict(<<KV("primary", JStr("#1a73e8")),
                                     KV("accent", JStr("#ff5722"))>>)),
                KV("typography", JDict(<<KV("heading", JStr("Inter 24px"))>>)),
                KV("spacing", JDict(<<KV("unit", JInt(4)),
                                      KV("scale", JList(<<JInt(2), JInt(4), JInt(12)>>))>>))>>)),
            KV("accessibility", JDict(<<KV("min_contrast", JFloat(30)),
                                        KV("min_touch_target", JFloat(480)),
                                        KV("require_labels", JBool(FALSE))>>)),
            KV("discovered_patterns", JList(<<
                JDict(<<KV("type", JStr("card")), KV("screens", JList(<<>>))>>),
                JDict(<<KV("type", JStr("nav_bar")),
                        KV("screens", JList(<<JStr("home"), JStr("settings")>>))>>)>>))>>)

C7_Witness ==
    /\ pc = "done" /\ exitCode = 0
    /\ IsRecord(stdin) /\ NamedTool(stdin) = JStr("maestro_focus_region")
    /\ ReadsDoc /\ ReadDoc = DocRich
    /\ PatternsShown(stderr) = <<"  - card (seen on 0 screens)", "  - nav_bar (seen on 2 screens)">>

C9_ReadOnly ==
    [][ /\ pc' # pc => file' = file
        /\ pc = "format" => ds' = ds
        /\ (pc = "open" /\ pc' = "format") =>
              IF file.kind = "regular" /\ file.text.class = "json"
              THEN ds' = file.text.val
              ELSE ds' = get_default_design_system
        /\ pc' = "idle" => ds' = Unset ]_vars

C9_Witness ==
    /\ pc = "done" /\ exitCode = 0 /\ Activating(stdin)
    /\ prev.set /\ Activating(prev.req) /\ prev.saw = Absent
    /\ ReadsDoc /\ ReadDoc = DocFull /\ ds = DocFull
    /\ file = Regular(JsonText(DocFull))

\* C10: once the writer has acted, whatever it does around the two steps of the loader, the
\* loader returns: the default document, or the parse of what the file held
\* when it was read; a file gone or cut short at the read gives the default.
C10_LoadAlwaysReturns ==
    (sawExists # Unobserved /\ pc \in {"format", "done"} /\ writes > 0) =>
        /\ ds # Unset
        /\ IF sawExists.kind # "absent" /\ sawOpen.kind = "regular" /\ sawOpen.text.class = "json"
           THEN ds = sawOpen.text.val
           ELSE ds = get_default_design_system

=============================================================================
